---- MODULE Spec2Model ----
(***************************************************************************)
(* Model of the mapping converter of DecompilerMC (src/main.py):          *)
(* remove_brackets, remap_file_path and convert_mappings, and of the      *)
(* pipeline that calls it: main and decompile_fern_flower.                 *)
(*                                                                         *)
(* A Python str is modelled as a sequence of one-character strings, so    *)
(* that split, join, strip, startswith and slicing are computed the way   *)
(* the interpreter computes them.  A file is a sequence of lines, each    *)
(* line carrying its terminating newline, as readlines() returns them.    *)
(***************************************************************************)
EXTENDS Naturals, Sequences, FiniteSets, TLC

VARIABLES
    inputFile,    \* mappings/<version>/<side>.txt : sequence of lines
    outputFile,   \* mappings/<version>/<side>.tsrg : [exists, content]
    priorOutput,  \* the .tsrg file as it was before convert_mappings ran
    pc,           \* "idle" | "pass1" | "pass2" | "done" | "pass1_error" | "pass2_error"
    line_no,      \* index in inputFile of the next line of the running loop
    file_name,    \* the dict file_name : descriptor key -> obfuscated name
    method_type,  \* local method_type after the last member line of pass 2
    variables,    \* local variables after the last method line of pass 2
    step,         \* main: the statement main is at
    args,         \* main: [quiet, force, auto, decompiler] once parsed or asked
    calls,        \* main: the pipeline functions called so far, in order
    stderr,       \* the tracebacks of uncaught exceptions
    exit_status,  \* "none" while running, then the process's exit status
    extraJar,     \* ./src/<decompiled_version>/<side>/<version>-<side>-temp.jar
    removeLog     \* decompile_fern_flower: outcome of each os.remove(extraJar)

\* the state of main and of decompile_fern_flower
mainVars == <<step, args, calls, stderr, exit_status, extraJar, removeLog>>

vars == <<inputFile, outputFile, priorOutput, pc, line_no, file_name,
          method_type, variables, step, args, calls, stderr, exit_status,
          extraJar, removeLog>>

----------------------------------------------------------------------------
(* Python str primitives                                                   *)

Whitespace == {" ", "\t", "\n", "\r"}

\* s.startswith(p)
StartsWith(s, p) == Len(s) >= Len(p) /\ SubSeq(s, 1, Len(p)) = p

\* s.find(sub) from position k, 1-based; 0 when sub does not occur
RECURSIVE FindFrom(_, _, _)
FindFrom(s, sub, k) ==
    IF k + Len(sub) - 1 > Len(s) THEN 0
    ELSE IF SubSeq(s, k, k + Len(sub) - 1) = sub THEN k
    ELSE FindFrom(s, sub, k + 1)

\* sub in s
Contains(s, sub) == FindFrom(s, sub, 1) # 0

\* s.split(sep), sep non-empty
RECURSIVE Split(_, _)
Split(s, sep) ==
    LET k == FindFrom(s, sep, 1)
    IN  IF k = 0 THEN <<s>>
        ELSE <<SubSeq(s, 1, k - 1)>> \o Split(SubSeq(s, k + Len(sep), Len(s)), sep)

\* sep.join(parts)
RECURSIVE Join(_, _)
Join(sep, parts) ==
    IF parts = <<>> THEN <<>>
    ELSE IF Len(parts) = 1 THEN parts[1]
    ELSE parts[1] \o sep \o Join(sep, Tail(parts))

\* s.lstrip()
RECURSIVE Lstrip(_)
Lstrip(s) ==
    IF s # <<>> /\ s[1] \in Whitespace THEN Lstrip(Tail(s)) ELSE s

\* s.rstrip()
RECURSIVE Rstrip(_)
Rstrip(s) ==
    IF s # <<>> /\ s[Len(s)] \in Whitespace
    THEN Rstrip(SubSeq(s, 1, Len(s) - 1)) ELSE s

\* parts[-1]
LastOf(parts) == parts[Len(parts)]

\* s[1:-1]
Inner(s) == SubSeq(s, 2, Len(s) - 1)

----------------------------------------------------------------------------
(* Literals of the source                                                  *)

Arrow     == <<" ", "-", ">", " ">>       \* ' -> '
Indent    == <<" ", " ", " ", " ">>       \* '    '
Hash      == <<"#">>
Dot       == <<".">>
Slash     == <<"/">>
Colon     == <<":">>
Space     == <<" ">>
Comma     == <<",">>
LParen    == <<"(">>
RParen    == <<")">>
Brackets  == <<"[", "]">>                 \* '[]'
Tab       == <<"\t">>
Newline   == <<"\n">>

kInt     == <<"i", "n", "t">>
kDouble  == <<"d", "o", "u", "b", "l", "e">>
kBoolean == <<"b", "o", "o", "l", "e", "a", "n">>
kFloat   == <<"f", "l", "o", "a", "t">>
kLong    == <<"l", "o", "n", "g">>
kByte    == <<"b", "y", "t", "e">>
kShort   == <<"s", "h", "o", "r", "t">>
kChar    == <<"c", "h", "a", "r">>
kVoid    == <<"v", "o", "i", "d">>

remap_primitives ==
    (kInt :> <<"I">>) @@ (kDouble :> <<"D">>) @@ (kBoolean :> <<"Z">>) @@
    (kFloat :> <<"F">>) @@ (kLong :> <<"J">>) @@ (kByte :> <<"B">>) @@
    (kShort :> <<"S">>) @@ (kChar :> <<"C">>) @@ (kVoid :> <<"V">>)

----------------------------------------------------------------------------
(* remove_brackets and remap_file_path                                     *)

\* variant of remove_brackets: `if` where the source has `while`
remove_brackets_once(line, counter) ==
    IF Contains(line, Brackets)
    THEN <<SubSeq(line, 1, Len(line) - 2), counter + 1>>
    ELSE <<line, counter>>

\* while '[]' in line: counter += 1; line = line[:-2]
RECURSIVE remove_brackets(_, _)
remove_brackets(line, counter) ==
    IF Contains(line, Brackets)
    THEN remove_brackets(SubSeq(line, 1, Len(line) - 2), counter + 1)
    ELSE <<line, counter>>

remap_file_path(path) ==
    IF path \notin DOMAIN remap_primitives
    THEN <<"L">> \o Join(Slash, Split(path, Dot)) \o <<";">>
    ELSE remap_primitives[path]

----------------------------------------------------------------------------
(* convert_mappings: the descriptor of a method's return type              *)

\* for i in range(array_length_type): restore the array brackets upfront
RECURSIVE RestoreBrackets(_, _)
RestoreBrackets(desc, n) ==
    IF n = 0 THEN desc
    ELSE RestoreBrackets(
             IF desc[Len(desc)] = ";"
             THEN <<"[">> \o SubSeq(desc, 1, Len(desc) - 1) \o <<";">>
             ELSE <<"[">> \o desc,
             n - 1)

\* variant of Obfuscate: "L" + file_name.get(t, "") + ";"
ObfuscateWithGet(t, fn) ==
    IF t \in DOMAIN fn THEN <<"L">> \o fn[t] \o <<";">> ELSE <<"L", ";">>

\* "L" + file_name[t] + ";" if t in file_name else t
Obfuscate(t, fn) ==
    IF t \in DOMAIN fn THEN <<"L">> \o fn[t] \o <<";">> ELSE t

\* variant of Repackage: the obfuscated name keeps its dots
RepackageNever(t) == t

\* if "." in t: t = "/".join(t.split("."))
Repackage(t) ==
    IF Contains(t, Dot) THEN Join(Slash, Split(t, Dot)) ELSE t

\* method_type after the statements that encode the return type
EncodeMethodType(raw_type, fn) ==
    LET rb == remove_brackets(raw_type, 0)
    IN  RestoreBrackets(Repackage(Obfuscate(remap_file_path(rb[1]), fn)), rb[2])

----------------------------------------------------------------------------
(* convert_mappings: the descriptors of a method's parameters              *)

\* for j in range(array_length_variables[i]): restore the brackets of one variable
RECURSIVE RestoreVariableBrackets(_, _)
RestoreVariableBrackets(variable, n) ==
    IF n = 0 THEN variable
    ELSE RestoreVariableBrackets(
             IF variable[Len(variable)] = ";"
             THEN <<"[">> \o SubSeq(variable, 1, Len(variable) - 1) \o <<";">>
             ELSE <<"[">> \o variable,
             n - 1)

\* the list comprehensions over variables, then the bracket loop
EncodeVariableList(list, fn) ==
    LET stripped   == [i \in 1..Len(list) |-> remove_brackets(list[i], 0)]
        remapped   == [i \in 1..Len(list) |-> remap_file_path(stripped[i][1])]
        obfuscated == [i \in 1..Len(list) |->
                          IF remapped[i] \in DOMAIN fn
                          THEN <<"L">> \o fn[remapped[i]] \o <<";">>
                          ELSE remapped[i]]
        repackaged == [i \in 1..Len(list) |->
                          IF Contains(obfuscated[i], Dot)
                          THEN Join(Slash, Split(obfuscated[i], Dot))
                          ELSE obfuscated[i]]
    IN  [i \in 1..Len(list) |->
            RestoreVariableBrackets(repackaged[i], stripped[i][2])]

\* variant of JoinVariables: ",".join(variables)
JoinVariablesComma(list) == Join(Comma, list)

\* "".join(variables)
JoinVariables(list) == Join(<<>>, list)

\* variables after the `if variables != ""` block
EncodeVariables(raw_variables, fn) ==
    IF raw_variables # <<>>
    THEN JoinVariables(EncodeVariableList(Split(raw_variables, Comma), fn))
    ELSE raw_variables

----------------------------------------------------------------------------
(* convert_mappings: one line of each pass                                 *)

IsComment(line) == StartsWith(line, Hash)

\* the test of both passes for a member line
IsIndented(line) == StartsWith(line, Indent)

\* deobf_name, obf_name = line.split(' -> ') raises ValueError
SplitFails(line) == Len(Split(line, Arrow)) # 2

\* file_name[key] = value
Put(fn, key, value) ==
    [k \in DOMAIN fn \cup {key} |-> IF k = key THEN value ELSE fn[k]]

\* variant of IndexClass: the key keeps the dots of the class name
IndexClassDottedKey(line, fn) ==
    LET parts == Split(line, Arrow)
    IN  Put(fn, <<"L">> \o parts[1] \o <<";">>, Split(parts[2], Colon)[1])

\* pass 1, a class line: the dict after the assignment
IndexClass(line, fn) ==
    LET parts == Split(line, Arrow)
    IN  Put(fn, remap_file_path(parts[1]), Split(parts[2], Colon)[1])

\* pass 2, a member line: method_type, method_name = deobf_name.split(" ")
MemberParts(line) == Split(Lstrip(Split(line, Arrow)[1]), Space)

\* pass 2: the unpacking of deobf_name.split(" ") raises ValueError
MemberFails(line) == Len(MemberParts(line)) # 2

\* pass 2: method_type.split(":")[-1]
RawMethodType(line) == LastOf(Split(MemberParts(line)[1], Colon))

\* pass 2: "(" in method_name and ")" in method_name
IsFunction(line) ==
    /\ Contains(MemberParts(line)[2], LParen)
    /\ Contains(MemberParts(line)[2], RParen)

\* pass 2: method_name.split('(')[-1].split(')')[0]
RawVariables(line) ==
    Split(LastOf(Split(MemberParts(line)[2], LParen)), RParen)[1]

\* pass 2: what outputFile.write receives for a method line
MethodLine(line, fn) ==
    LET obf_name      == Rstrip(Split(line, Arrow)[2])
        function_name == Split(MemberParts(line)[2], LParen)[1]
    IN  Tab \o obf_name \o Space \o LParen
            \o EncodeVariables(RawVariables(line), fn) \o RParen
            \o EncodeMethodType(RawMethodType(line), fn)
            \o Space \o function_name \o Newline

\* variant of FieldLine: the field's type is written too
FieldLineWithType(line) ==
    Tab \o Rstrip(Split(line, Arrow)[2]) \o Space \o MemberParts(line)[1]
        \o Space \o MemberParts(line)[2] \o Newline

\* pass 2: what outputFile.write receives for a field line
FieldLine(line) ==
    Tab \o Rstrip(Split(line, Arrow)[2]) \o Space \o MemberParts(line)[2]
        \o Newline

\* pass 2: what outputFile.write receives for a class line
ClassLine(line) ==
    LET parts    == Split(line, Arrow)
        obf_name == Split(parts[2], Colon)[1]
    IN  Inner(remap_file_path(obf_name)) \o Space
            \o Inner(remap_file_path(parts[1])) \o Newline

----------------------------------------------------------------------------
(* The input files of the model                                            *)

MaxLines  == 3    \* lines of a file made of the sample lines
MaxDepth  == 2    \* array depth of a type token
MaxParams == 2    \* parameters of a generated method line

nPF  == <<"p", ".", "F">>     \* a packaged deobfuscated class
nG   == <<"G">>               \* a default-package deobfuscated class
nJS  == <<"j", ".", "S">>     \* a class no header line ever names
oA   == <<"a">>
oB   == <<"b">>
oC   == <<"c">>
oE   == <<"e">>
oXY  == <<"x", ".", "y">>     \* an obfuscated name that kept its package
fF   == <<"f">>
fG   == <<"g">>
fM   == <<"m">>
fN   == <<"n">>
LineRange == <<"1", ":", "2", ":">>

\* a type token: the base followed by depth times '[]'
RECURSIVE TypeToken(_, _)
TypeToken(base, depth) ==
    IF depth = 0 THEN base ELSE TypeToken(base, depth - 1) \o Brackets

Tok(t) == TypeToken(t.base, t.depth)

\* `<deobf> -> <obf>:`
RenderClass(e) == e.deobf \o Arrow \o e.obf \o Colon \o Newline

\* `<indent>[<range>]<type> <name> -> <obf>`
RenderField(e) ==
    e.indent \o e.range \o Tok(e.type) \o Space \o e.name \o Arrow \o e.obf
        \o Newline

\* `<indent>[<range>]<type> <name>(<type>,...) -> <obf>`
RenderMethod(e) ==
    e.indent \o e.range \o Tok(e.type) \o Space \o e.name \o LParen
        \o Join(Comma, [i \in 1..Len(e.params) |-> Tok(e.params[i])])
        \o RParen \o Arrow \o e.obf \o Newline

T(base, depth) == [base |-> base, depth |-> depth]

SampleClasses ==
    { [deobf |-> nPF, obf |-> oA], [deobf |-> nG, obf |-> kInt] }

\* the class blocks a generated method line is put after
HeaderBlocks ==
    { <<>>,
      <<[deobf |-> nPF, obf |-> oA]>>,
      <<[deobf |-> nPF, obf |-> oA], [deobf |-> nG, obf |-> oXY]>>,
      <<[deobf |-> nG, obf |-> kInt]>>,
      <<[deobf |-> nPF, obf |-> nG], [deobf |-> nG, obf |-> oA]>>,
      <<[deobf |-> nPF, obf |-> oA], [deobf |-> nPF, obf |-> oB]>>,
      <<[deobf |-> kInt, obf |-> oB]>> }

ClassEntries ==
    SampleClasses \cup UNION {{h[i] : i \in 1..Len(h)} : h \in HeaderBlocks}

FieldEntries ==
    { [indent |-> Indent, range |-> <<>>, type |-> T(kInt, 0),
       name |-> fF, obf |-> oB],
      [indent |-> Indent, range |-> LineRange, type |-> T(nPF, 1),
       name |-> fG, obf |-> oC] }

TabFieldEntries ==
    { [indent |-> Tab, range |-> <<>>, type |-> T(kInt, 0),
       name |-> fF, obf |-> oB] }

SampleMethods ==
    { [indent |-> Indent, range |-> <<>>, type |-> T(nG, 1),
       name |-> fN, params |-> <<>>, obf |-> oE] }

CommentLine   == <<"#", " ", "c", "\n">>
NoArrowLine   == <<"f", "o", "o", " ", "b", "a", "r", "\n">>
NoSpaceMember == Indent \o <<"x">> \o Arrow \o oC \o Newline

SampleLines ==
    {RenderClass(e) : e \in SampleClasses}
        \cup {RenderField(e) : e \in FieldEntries \cup TabFieldEntries}
        \cup {RenderMethod(e) : e \in SampleMethods}
        \cup {CommentLine, NoArrowLine, NoSpaceMember}

\* every file of at most MaxLines sample lines
SampleFiles ==
    UNION {[1..n -> SampleLines] : n \in 0..MaxLines}

\* the type tokens of the generated method lines
Bases  == {kInt, kVoid, nPF, nG, nJS}
Tokens == {T(b, d) : b \in Bases, d \in 0..MaxDepth}
ParamTokens == {T(b, d) : b \in {kInt, nPF}, d \in 0..MaxDepth}

GeneratedMethods ==
    { [indent |-> Indent, range |-> LineRange, type |-> t,
       name |-> fM, params |-> <<>>, obf |-> oC] : t \in Tokens }
    \cup
    { [indent |-> Indent, range |-> <<>>, type |-> T(kVoid, 0),
       name |-> fN, params |-> ps, obf |-> oE] :
         ps \in UNION {[1..n -> ParamTokens] : n \in 1..MaxParams} }

MethodEntries == SampleMethods \cup GeneratedMethods

\* class headers followed by one generated method line
GeneratedFiles ==
    { [i \in 1..Len(h) |-> RenderClass(h[i])] \o <<RenderMethod(m)>> :
        h \in HeaderBlocks, m \in GeneratedMethods }

\* type tokens whose brackets do not pair up at the end of the token
MalformedTokens ==
    { kInt \o <<"[">>, kInt \o <<"]">>, kInt \o <<"[", "]", "]">>,
      kInt \o <<"[", "]", "x">> }

\* a method line with the raw token as its return type, or as its parameter
RenderRawReturn(tok) ==
    Indent \o tok \o Space \o fM \o LParen \o RParen \o Arrow \o oC \o Newline
RenderRawParam(tok) ==
    Indent \o kVoid \o Space \o fN \o LParen \o tok \o RParen \o Arrow \o oE
        \o Newline

MalformedLines ==
    {RenderRawReturn(tok) : tok \in MalformedTokens}
        \cup {RenderRawParam(tok) : tok \in MalformedTokens}

\* one method line with a malformed token, alone or after a class header
MalformedFiles ==
    { [i \in 1..Len(h) |-> RenderClass(h[i])] \o <<l>> :
        h \in {<<>>, <<[deobf |-> nPF, obf |-> oA]>>}, l \in MalformedLines }

NoFile    == [exists |-> FALSE, content |-> <<>>]
StaleFile == [exists |-> TRUE,  content |-> <<<<"o", "l", "d", "\n">>>>]

----------------------------------------------------------------------------
(* convert_mappings as a state machine                                     *)

Init ==
    /\ inputFile \in SampleFiles \cup GeneratedFiles \cup MalformedFiles
    /\ priorOutput \in {NoFile, StaleFile}
    /\ outputFile = priorOutput
    /\ pc = "pass1"
    /\ line_no = 1
    /\ file_name = <<>>
    /\ method_type = <<>>
    /\ variables = <<>>
    /\ step = "convert_mappings"
    /\ args = [quiet |-> TRUE, force |-> FALSE, auto |-> TRUE,
               decompiler |-> "cfr"]
    /\ calls = <<"convert_mappings">>
    /\ stderr = <<>>
    /\ exit_status = "none"
    /\ extraJar = "absent"
    /\ removeLog = <<>>

\* pass 1: a comment line is skipped
Pass1Comment ==
    /\ pc = "pass1" /\ line_no <= Len(inputFile)
    /\ IsComment(inputFile[line_no])
    /\ line_no' = line_no + 1
    /\ UNCHANGED <<inputFile, outputFile, priorOutput, pc, file_name,
                   method_type, variables>>
    /\ UNCHANGED mainVars

\* variant of Pass1Error: the output was opened 'w+' before pass 1
Pass1ErrorAfterOpen ==
    /\ pc = "pass1" /\ line_no <= Len(inputFile)
    /\ ~IsComment(inputFile[line_no])
    /\ SplitFails(inputFile[line_no])
    /\ pc' = "pass1_error"
    /\ outputFile' = [exists |-> TRUE, content |-> <<>>]
    /\ UNCHANGED <<inputFile, priorOutput, line_no, file_name,
                   method_type, variables>>
    /\ UNCHANGED mainVars

\* pass 1: line.split(' -> ') does not unpack into two names
Pass1Error ==
    /\ pc = "pass1" /\ line_no <= Len(inputFile)
    /\ ~IsComment(inputFile[line_no])
    /\ SplitFails(inputFile[line_no])
    /\ pc' = "pass1_error"
    /\ UNCHANGED <<inputFile, outputFile, priorOutput, line_no, file_name,
                   method_type, variables>>
    /\ UNCHANGED mainVars

\* pass 1: a class line is added to file_name
Pass1Class ==
    /\ pc = "pass1" /\ line_no <= Len(inputFile)
    /\ ~IsComment(inputFile[line_no])
    /\ ~SplitFails(inputFile[line_no])
    /\ ~IsIndented(inputFile[line_no])
    /\ file_name' = IndexClass(inputFile[line_no], file_name)
    /\ line_no' = line_no + 1
    /\ UNCHANGED <<inputFile, outputFile, priorOutput, pc, method_type,
                   variables>>
    /\ UNCHANGED mainVars

\* pass 1: a member line adds nothing
Pass1Member ==
    /\ pc = "pass1" /\ line_no <= Len(inputFile)
    /\ ~IsComment(inputFile[line_no])
    /\ ~SplitFails(inputFile[line_no])
    /\ IsIndented(inputFile[line_no])
    /\ line_no' = line_no + 1
    /\ UNCHANGED <<inputFile, outputFile, priorOutput, pc, file_name,
                   method_type, variables>>
    /\ UNCHANGED mainVars

\* the second with statement: the input is reopened, the output opened 'w+'
OpenOutput ==
    /\ pc = "pass1" /\ line_no > Len(inputFile)
    /\ outputFile' = [exists |-> TRUE, content |-> <<>>]
    /\ pc' = "pass2"
    /\ line_no' = 1
    /\ UNCHANGED <<inputFile, priorOutput, file_name, method_type, variables>>
    /\ UNCHANGED mainVars

\* pass 2: a comment line is skipped
Pass2Comment ==
    /\ pc = "pass2" /\ line_no <= Len(inputFile)
    /\ IsComment(inputFile[line_no])
    /\ line_no' = line_no + 1
    /\ UNCHANGED <<inputFile, outputFile, priorOutput, pc, file_name,
                   method_type, variables>>
    /\ UNCHANGED mainVars

\* pass 2: deobf_name.split(" ") of a member line does not unpack into two
Pass2Error ==
    /\ pc = "pass2" /\ line_no <= Len(inputFile)
    /\ ~IsComment(inputFile[line_no])
    /\ IsIndented(inputFile[line_no])
    /\ MemberFails(inputFile[line_no])
    /\ pc' = "pass2_error"
    /\ UNCHANGED <<inputFile, outputFile, priorOutput, line_no, file_name,
                   method_type, variables>>
    /\ UNCHANGED mainVars

\* pass 2: a method line is written
Pass2Method ==
    /\ pc = "pass2" /\ line_no <= Len(inputFile)
    /\ ~IsComment(inputFile[line_no])
    /\ IsIndented(inputFile[line_no])
    /\ ~MemberFails(inputFile[line_no])
    /\ IsFunction(inputFile[line_no])
    /\ method_type' = EncodeMethodType(RawMethodType(inputFile[line_no]), file_name)
    /\ variables' = EncodeVariables(RawVariables(inputFile[line_no]), file_name)
    /\ outputFile' = [outputFile EXCEPT !.content =
                         Append(@, MethodLine(inputFile[line_no], file_name))]
    /\ line_no' = line_no + 1
    /\ UNCHANGED <<inputFile, priorOutput, pc, file_name>>
    /\ UNCHANGED mainVars

\* pass 2: a field line is written
Pass2Field ==
    /\ pc = "pass2" /\ line_no <= Len(inputFile)
    /\ ~IsComment(inputFile[line_no])
    /\ IsIndented(inputFile[line_no])
    /\ ~MemberFails(inputFile[line_no])
    /\ ~IsFunction(inputFile[line_no])
    /\ method_type' = RawMethodType(inputFile[line_no])
    /\ outputFile' = [outputFile EXCEPT !.content =
                         Append(@, FieldLine(inputFile[line_no]))]
    /\ line_no' = line_no + 1
    /\ UNCHANGED <<inputFile, priorOutput, pc, file_name, variables>>
    /\ UNCHANGED mainVars

\* variant of Pass2Class: the class's entry is taken out of file_name
Pass2ClassDropsEntry ==
    /\ pc = "pass2" /\ line_no <= Len(inputFile)
    /\ ~IsComment(inputFile[line_no])
    /\ ~IsIndented(inputFile[line_no])
    /\ outputFile' = [outputFile EXCEPT !.content =
                         Append(@, ClassLine(inputFile[line_no]))]
    /\ file_name' =
           [k \in DOMAIN file_name
                  \ {remap_file_path(Split(inputFile[line_no], Arrow)[1])} |->
               file_name[k]]
    /\ line_no' = line_no + 1
    /\ UNCHANGED <<inputFile, priorOutput, pc, method_type, variables>>
    /\ UNCHANGED mainVars

\* pass 2: a class line is written
Pass2Class ==
    /\ pc = "pass2" /\ line_no <= Len(inputFile)
    /\ ~IsComment(inputFile[line_no])
    /\ ~IsIndented(inputFile[line_no])
    /\ outputFile' = [outputFile EXCEPT !.content =
                         Append(@, ClassLine(inputFile[line_no]))]
    /\ line_no' = line_no + 1
    /\ UNCHANGED <<inputFile, priorOutput, pc, file_name, method_type,
                   variables>>
    /\ UNCHANGED mainVars

\* both files are closed and convert_mappings returns
Finish ==
    /\ pc = "pass2" /\ line_no > Len(inputFile)
    /\ pc' = "done"
    /\ UNCHANGED <<inputFile, outputFile, priorOutput, line_no, file_name,
                   method_type, variables>>
    /\ UNCHANGED mainVars

Next ==
    \/ Pass1Comment
    \/ Pass1Error
    \/ Pass1Class
    \/ Pass1Member
    \/ OpenOutput
    \/ Pass2Comment
    \/ Pass2Error
    \/ Pass2Method
    \/ Pass2Field
    \/ Pass2Class
    \/ Finish

Spec == Init /\ [][Next]_vars

----------------------------------------------------------------------------
(* main and decompile_fern_flower as a state machine                       *)

convertVars == <<inputFile, outputFile, priorOutput, pc, line_no, file_name,
                 method_type, variables>>

\* the mapping files the pipeline is run on
MainFiles ==
    { <<CommentLine, RenderClass([deobf |-> nPF, obf |-> oA]),
        RenderField([indent |-> Indent, range |-> <<>>, type |-> T(kInt, 0),
                     name |-> fF, obf |-> oB])>>,
      <<RenderClass([deobf |-> nG, obf |-> oA]),
        RenderMethod([indent |-> Indent, range |-> <<>>, type |-> T(nG, 1),
                      name |-> fN, params |-> <<>>, obf |-> oE])>>,
      <<RenderClass([deobf |-> nPF, obf |-> oA]), NoArrowLine>>,
      <<RenderClass([deobf |-> nPF, obf |-> oA]), NoSpaceMember>> }

\* args.quiet, args.force, r of line 659-662 and the decompiler of line 635
ParsedArgs ==
    [quiet : BOOLEAN, force : BOOLEAN, auto : BOOLEAN,
     decompiler : {"cfr", "fernflower"}]

InitMain ==
    /\ inputFile \in MainFiles
    /\ priorOutput = NoFile
    /\ outputFile = priorOutput
    /\ pc = "idle"
    /\ line_no = 1
    /\ file_name = <<>>
    /\ method_type = <<>>
    /\ variables = <<>>
    /\ step = "start"
    /\ args \in ParsedArgs
    /\ calls = <<>>
    /\ stderr = <<>>
    /\ exit_status = "none"
    /\ extraJar = "absent"
    /\ removeLog = <<>>

\* the values r can take before a step: auto mode runs every step, manual
\* mode takes r from the step's flag or from input()
StepFlag == IF args.auto THEN {TRUE} ELSE BOOLEAN

\* sys.exit(code)
SysExit(code) == step' = "exited" /\ exit_status' = code

\* ValueError of an unpacking into two names; the message holds counts only
UnpackError(n) ==
    IF n < 2
    THEN [exception |-> "ValueError",
          message |-> "not enough values to unpack", expected |-> 2, got |-> n]
    ELSE [exception |-> "ValueError",
          message |-> "too many values to unpack", expected |-> 2]

\* the exception convert_mappings raised at line 431 or 445
RaisedError ==
    IF pc = "pass1_error"
    THEN UnpackError(Len(Split(inputFile[line_no], Arrow)))
    ELSE UnpackError(Len(MemberParts(inputFile[line_no])))

\* main up to the choice of the mode: check_java, the arguments, make_paths
\* and the two manifests, each of which can end the run
Prepare ==
    /\ step = "start"
    /\ \/ step' = "get_mappings" /\ UNCHANGED exit_status
       \/ SysExit("-1")
    /\ UNCHANGED <<convertVars, args, calls, stderr, extraJar, removeLog>>

\* a step whose function returns or calls sys.exit(-1)
ExternalStep(here, next) ==
    /\ step = here
    /\ \E r \in StepFlag, ok \in BOOLEAN :
          IF ~r THEN step' = next /\ UNCHANGED <<calls, exit_status>>
          ELSE /\ calls' = Append(calls, here)
               /\ IF ok THEN step' = next /\ UNCHANGED exit_status
                  ELSE SysExit("-1")
    /\ UNCHANGED <<convertVars, args, stderr, extraJar, removeLog>>

GetMappings == ExternalStep("get_mappings", "convert_mappings")

\* convert_mappings is called, or skipped in manual mode
CallConvertMappings ==
    /\ step = "convert_mappings" /\ pc = "idle"
    /\ \E r \in StepFlag :
          IF r
          THEN /\ calls' = Append(calls, "convert_mappings")
               /\ pc' = "pass1"
               /\ UNCHANGED step
          ELSE /\ step' = "get_version_jar"
               /\ UNCHANGED <<calls, pc>>
    /\ UNCHANGED <<inputFile, outputFile, priorOutput, line_no, file_name,
                   method_type, variables, args, stderr, exit_status,
                   extraJar, removeLog>>

\* convert_mappings returned
ConvertMappingsReturns ==
    /\ step = "convert_mappings" /\ pc = "done"
    /\ step' = "get_version_jar"
    /\ UNCHANGED <<convertVars, args, calls, stderr, exit_status, extraJar,
                   removeLog>>

\* convert_mappings raised: main has no handler, the interpreter prints the
\* traceback and the process ends with status 1
ConvertMappingsRaises ==
    /\ step = "convert_mappings" /\ pc \in {"pass1_error", "pass2_error"}
    /\ stderr' = Append(stderr, RaisedError)
    /\ SysExit("1")
    /\ UNCHANGED <<convertVars, args, calls, extraJar, removeLog>>

GetVersionJar == ExternalStep("get_version_jar", "remap")

Remap ==
    ExternalStep("remap",
                 IF args.auto THEN "decompile" ELSE "delete_dependencies")

\* manual mode only: delete_dependencies returns, or ZipFile raises
DeleteDependencies ==
    /\ step = "delete_dependencies"
    /\ \E r \in StepFlag, ok \in BOOLEAN :
          IF ~r THEN step' = "decompile" /\ UNCHANGED <<calls, exit_status, stderr>>
          ELSE /\ calls' = Append(calls, "delete_dependencies")
               /\ IF ok THEN step' = "decompile" /\ UNCHANGED <<exit_status, stderr>>
                  ELSE /\ stderr' = Append(stderr, [exception |-> "FileNotFoundError"])
                       /\ SysExit("1")
    /\ UNCHANGED <<convertVars, args, extraJar, removeLog>>

\* the decompiler is chosen, or the step is skipped in manual mode
Decompile ==
    /\ step = "decompile"
    /\ \E r \in StepFlag :
          IF ~r THEN step' = "finished" /\ UNCHANGED calls
          ELSE IF args.decompiler = "cfr"
          THEN step' = "decompile_cfr" /\ calls' = Append(calls, "decompile_cfr")
          ELSE /\ step' = "decompile_fern_flower"
               /\ calls' = Append(calls, "decompile_fern_flower")
    /\ UNCHANGED <<convertVars, args, stderr, exit_status, extraJar, removeLog>>

\* decompile_cfr returns, or its files are missing
DecompileCfr ==
    /\ step = "decompile_cfr"
    /\ \/ step' = "finished" /\ UNCHANGED exit_status
       \/ SysExit("-1")
    /\ UNCHANGED <<convertVars, args, calls, stderr, extraJar, removeLog>>

\* decompile_fern_flower up to the extraction: FernFlower leaves the jar in
\* the output directory and it is extracted there, or the files are missing
FernFlowerRun ==
    /\ step = "decompile_fern_flower"
    /\ \/ /\ step' = "remove_extra_jar"
          /\ extraJar' = "present"
          /\ UNCHANGED exit_status
       \/ SysExit("-1") /\ UNCHANGED extraJar
    /\ UNCHANGED <<convertVars, args, calls, stderr, removeLog>>

\* os.remove of the extra jar: the file's state, the log and the traceback
\* after the call
OsRemoveExtraJar ==
    IF extraJar = "present"
    THEN /\ extraJar' = "absent"
         /\ removeLog' = Append(removeLog, "removed")
         /\ UNCHANGED stderr
    ELSE /\ removeLog' = Append(removeLog, "FileNotFoundError")
         /\ stderr' = Append(stderr, [exception |-> "FileNotFoundError"])
         /\ UNCHANGED extraJar

\* if not quiet: response = input() or "y"; if response == 'y': os.remove
FernFlowerPrompt ==
    /\ step = "remove_extra_jar"
    /\ IF args.quiet THEN UNCHANGED <<extraJar, removeLog, stderr>>
       ELSE \E response \in {"y", "n"} :
                IF response = "y" THEN OsRemoveExtraJar
                ELSE UNCHANGED <<extraJar, removeLog, stderr>>
    /\ step' = "force_remove_extra_jar"
    /\ UNCHANGED <<convertVars, args, calls, exit_status>>

\* if force: os.remove; then decompile_fern_flower returns, or the removal
\* raises and the process ends with the traceback
FernFlowerForce ==
    /\ step = "force_remove_extra_jar"
    /\ IF args.force
       THEN /\ OsRemoveExtraJar
            /\ IF extraJar = "present"
               THEN step' = "finished" /\ UNCHANGED exit_status
               ELSE SysExit("1")
       ELSE /\ step' = "finished"
            /\ UNCHANGED <<extraJar, removeLog, stderr, exit_status>>
    /\ UNCHANGED <<convertVars, args, calls>>

\* the end of main: sys.exit(0), or the return after the last prompt
Finished ==
    /\ step = "finished"
    /\ SysExit("0")
    /\ UNCHANGED <<convertVars, args, calls, stderr, extraJar, removeLog>>

NextMain ==
    \/ Prepare
    \/ GetMappings
    \/ CallConvertMappings
    \/ Pass1Comment
    \/ Pass1Error
    \/ Pass1Class
    \/ Pass1Member
    \/ OpenOutput
    \/ Pass2Comment
    \/ Pass2Error
    \/ Pass2Method
    \/ Pass2Field
    \/ Pass2Class
    \/ Finish
    \/ ConvertMappingsReturns
    \/ ConvertMappingsRaises
    \/ GetVersionJar
    \/ Remap
    \/ DeleteDependencies
    \/ Decompile
    \/ DecompileCfr
    \/ FernFlowerRun
    \/ FernFlowerPrompt
    \/ FernFlowerForce
    \/ Finished

SpecMain == InitMain /\ [][NextMain]_vars

----------------------------------------------------------------------------
(* Vocabulary of the properties                                            *)

\* the entry a generated or sample line was rendered from
ClassOf ==
    [l \in {RenderClass(e) : e \in ClassEntries} |->
        CHOOSE e \in ClassEntries : RenderClass(e) = l]
FieldOf ==
    [l \in {RenderField(e) : e \in FieldEntries} |->
        CHOOSE e \in FieldEntries : RenderField(e) = l]
MethodOf ==
    [l \in {RenderMethod(e) : e \in MethodEntries} |->
        CHOOSE e \in MethodEntries : RenderMethod(e) = l]

IsClassEntry(j)  == inputFile[j] \in DOMAIN ClassOf
IsFieldEntry(j)  == inputFile[j] \in DOMAIN FieldOf
IsMethodEntry(j) == inputFile[j] \in DOMAIN MethodOf

\* name with every '.' turned into '/', and back
SlashPath(name) == [i \in 1..Len(name) |-> IF name[i] = "." THEN "/" ELSE name[i]]
DottedName(path) == [i \in 1..Len(path) |-> IF path[i] = "/" THEN "." ELSE path[i]]

\* k times '['
ArrayPrefix(k) == [i \in 1..k |-> "["]

\* the concatenation of a sequence of strings
RECURSIVE Concat(_)
Concat(parts) == IF parts = <<>> THEN <<>> ELSE parts[1] \o Concat(Tail(parts))

\* the input lines pass 2 has translated, and where each one's output is
Written(j) ==
    /\ pc \in {"pass2", "done", "pass2_error"}
    /\ j \in 1..(line_no - 1)
OutIndex(j) == Cardinality({i \in 1..j : inputFile[i][1] # "#"})
OutputOf(j) == outputFile.content[OutIndex(j)]

\* the line pass 2 translated last is a method line
LastIsMethod ==
    /\ pc \in {"pass2", "done", "pass2_error"}
    /\ line_no > 1
    /\ IsMethodEntry(line_no - 1)
LastMethod == MethodOf[inputFile[line_no - 1]]

\* the last class header of the input that names base, 0 when there is none
LastHeader(base) ==
    LET J == {j \in 1..Len(inputFile) :
                 IsClassEntry(j) /\ ClassOf[inputFile[j]].deobf = base}
    IN  IF J = {} THEN 0 ELSE CHOOSE j \in J : \A i \in J : i <= j

\* the descriptor of one type token of the line translated last
DescriptorOf(t) == EncodeMethodType(Tok(t), file_name)

----------------------------------------------------------------------------
(* C1: every class header line `<deobf> -> <obf>:` is emitted as the one  *)
(* line `<obf> <deobf with '.' as '/'>` and a newline, obfuscated name    *)
(* first (as the slash path the output format asks for), whatever the two *)
(* names are.                                                              *)
C1_ClassLineSwapsNames ==
    \A j \in 1..Len(inputFile) :
        Written(j) /\ IsClassEntry(j) =>
            OutputOf(j) = SlashPath(ClassOf[inputFile[j]].obf) \o Space
                              \o SlashPath(ClassOf[inputFile[j]].deobf)
                              \o Newline

----------------------------------------------------------------------------
(* C2: a return or parameter type that names a class with a header line   *)
(* anywhere in the input, before or after the method line, is emitted as  *)
(* L<obf>; with the obfuscated name of that header (its package dots as   *)
(* slashes, the last header when the class is declared twice).            *)
C2_Resolved(t) ==
    IF LastHeader(t.base) = 0 THEN DescriptorOf(t)
    ELSE ArrayPrefix(t.depth) \o <<"L">>
             \o SlashPath(ClassOf[inputFile[LastHeader(t.base)]].obf)
             \o <<";">>

C2_IndexCompleteBeforeOutput ==
    LastIsMethod =>
        /\ method_type = C2_Resolved(LastMethod.type)
        /\ variables = Concat([i \in 1..Len(LastMethod.params) |->
                                  C2_Resolved(LastMethod.params[i])])

\* a method line resolved against a header that comes after it
C2_Witness ==
    /\ LastIsMethod
    /\ LastHeader(LastMethod.type.base) > line_no - 1
    /\ method_type = <<"[", "L", "i", "n", "t", ";">>

----------------------------------------------------------------------------
(* C3: a type token of k trailing [] pairs is emitted as k '[' followed   *)
(* by the encoding of its base, as a return type and as a parameter.      *)
C3_ArrayDepthPreserved ==
    LastIsMethod =>
        /\ method_type = ArrayPrefix(LastMethod.type.depth)
                             \o DescriptorOf(T(LastMethod.type.base, 0))
        /\ variables = Concat([i \in 1..Len(LastMethod.params) |->
                                  ArrayPrefix(LastMethod.params[i].depth)
                                      \o DescriptorOf(T(LastMethod.params[i].base, 0))])

\* arrays of depth two and more, of a primitive and of a mapped class
C3_Witness ==
    /\ LastIsMethod
    /\ \/ /\ LastMethod.type = T(kInt, MaxDepth)
          /\ method_type = ArrayPrefix(MaxDepth) \o <<"I">>
       \/ /\ Len(LastMethod.params) = 1
          /\ LastMethod.params[1] = T(nPF, MaxDepth)
          /\ variables = ArrayPrefix(MaxDepth) \o <<"L", "a", ";">>
    /\ MaxDepth >= 2

----------------------------------------------------------------------------
(* C4: a class type token whose descriptor key is not in the index raises *)
(* nothing: the method line is translated and the token is emitted as     *)
(* its array prefix, 'L', the token's base with '.' as '/', and ';'.      *)
C4_Key(t) == <<"L">> \o SlashPath(t.base) \o <<";">>
C4_Unmapped(t) ==
    t.base \notin DOMAIN remap_primitives /\ C4_Key(t) \notin DOMAIN file_name
C4_PassedThrough(t) ==
    IF C4_Unmapped(t) THEN ArrayPrefix(t.depth) \o C4_Key(t)
    ELSE DescriptorOf(t)

C4_UnmappedPassesThrough ==
    /\ LastIsMethod =>
          /\ method_type = C4_PassedThrough(LastMethod.type)
          /\ variables = Concat([i \in 1..Len(LastMethod.params) |->
                                    C4_PassedThrough(LastMethod.params[i])])
    /\ \A t \in Tokens :
          /\ pc = "pass2" /\ line_no <= Len(inputFile)
          /\ IsMethodEntry(line_no)
          /\ \/ MethodOf[inputFile[line_no]].type = t
             \/ \E i \in 1..Len(MethodOf[inputFile[line_no]].params) :
                    MethodOf[inputFile[line_no]].params[i] = t
          /\ C4_Unmapped(t)
          => /\ IsIndented(inputFile[line_no])
             /\ ~MemberFails(inputFile[line_no])
             /\ IsFunction(inputFile[line_no])

\* an array of a class no header names, with a non-empty index
C4_Witness ==
    /\ LastIsMethod
    /\ LastMethod.type = T(nJS, 1)
    /\ DOMAIN file_name # {}
    /\ method_type = <<"[", "L", "j", "/", "S", ";">>

----------------------------------------------------------------------------
(* C5: when a non-comment line of the input has no ' -> ', the conversion *)
(* ends in an error in pass 1, at the first such line, and the output     *)
(* file is left as it was: not created, not truncated, not written.       *)
C5_LacksArrow(j) == inputFile[j][1] # "#" /\ ~Contains(inputFile[j], Arrow)
C5_Malformed == \E j \in 1..Len(inputFile) : C5_LacksArrow(j)

C5_NoOutputOnMissingArrow ==
    C5_Malformed =>
        /\ pc \in {"pass1", "pass1_error"}
        /\ outputFile = priorOutput
        /\ \A j \in 1..(line_no - 1) : ~C5_LacksArrow(j)
        /\ pc = "pass1" /\ line_no <= Len(inputFile) /\ C5_LacksArrow(line_no)
               => SplitFails(inputFile[line_no])

\* the error is raised at a later line of a file whose earlier lines are well formed
C5_Witness ==
    /\ pc = "pass1_error"
    /\ line_no = MaxLines
    /\ C5_LacksArrow(line_no)
    /\ priorOutput = StaleFile
    /\ outputFile = StaleFile
    /\ DOMAIN file_name # {}

----------------------------------------------------------------------------
(* C6: once convert_mappings has ended, the output file holds the         *)
(* translation of the whole input or was not written: a conversion that   *)
(* fails part-way leaves no translated prefix behind.                     *)
C6_AllOrNothing ==
    pc \in {"done", "pass1_error", "pass2_error"} =>
        \/ pc = "done" /\ Len(outputFile.content) = OutIndex(Len(inputFile))
        \/ outputFile = priorOutput
        \/ outputFile.content = <<>>

----------------------------------------------------------------------------
(* C7: a non-comment line is a member line for both passes exactly when   *)
(* it starts with whitespace of any kind and width: pass 1 indexes no     *)
(* such line, and pass 2 writes a tab-led member line for it and for no   *)
(* other line.                                                             *)
C7_AnyWhitespaceIsMember ==
    /\ \A k \in DOMAIN file_name : Len(k) >= 2 => k[2] \notin Whitespace
    /\ \A j \in 1..Len(inputFile) :
          Written(j) /\ inputFile[j][1] # "#" =>
              (inputFile[j][1] \in Whitespace <=> OutputOf(j)[1] = "\t")

----------------------------------------------------------------------------
(* C8: a method line is emitted as one line: a tab, the obfuscated name,  *)
(* a space, '(', the parameters' descriptors in order with nothing        *)
(* between them, ')', the return type's descriptor, a space, the method   *)
(* name without its parameter list, and a newline.                        *)
C8_MethodLineFormat ==
    \A j \in 1..Len(inputFile) :
        Written(j) /\ IsMethodEntry(j) =>
            LET e == MethodOf[inputFile[j]]
            IN  OutputOf(j) =
                    <<"\t">> \o e.obf \o <<" ", "(">>
                        \o Concat([i \in 1..Len(e.params) |->
                                      DescriptorOf(e.params[i])])
                        \o <<")">> \o DescriptorOf(e.type)
                        \o <<" ">> \o e.name \o <<"\n">>

\* a method of two parameters has been written
C8_Witness ==
    /\ pc = "done"
    /\ \E j \in 1..Len(inputFile) :
          /\ IsMethodEntry(j)
          /\ Len(MethodOf[inputFile[j]].params) = 2
          /\ OutputOf(j) = <<"\t", "e", " ", "(", "I", "L", "a", ";", ")", "V",
                             " ", "n", "\n">>

----------------------------------------------------------------------------
(* C9: a field line, with or without a line range and whatever its type,  *)
(* is emitted as one line: a tab, the obfuscated name, a space, the field *)
(* name and a newline; the type is not in the output.                     *)
C9_FieldLineFormat ==
    \A j \in 1..Len(inputFile) :
        Written(j) /\ IsFieldEntry(j) =>
            OutputOf(j) = <<"\t">> \o FieldOf[inputFile[j]].obf \o <<" ">>
                              \o FieldOf[inputFile[j]].name \o <<"\n">>

\* a field with a line range and an array type, and one with neither
C9_Witness ==
    /\ pc = "done"
    /\ \E j \in 1..Len(inputFile) :
          /\ IsFieldEntry(j)
          /\ FieldOf[inputFile[j]].range # <<>>
          /\ FieldOf[inputFile[j]].type.depth > 0
          /\ OutputOf(j) = <<"\t", "c", " ", "g", "\n">>
    /\ \E j \in 1..Len(inputFile) :
          /\ IsFieldEntry(j)
          /\ FieldOf[inputFile[j]].range = <<>>

----------------------------------------------------------------------------
(* C10: decoding a produced descriptor into its base and array depth and  *)
(* encoding that token again with the same index gives the descriptor.    *)

\* the count of leading '['
RECURSIVE C10_Depth(_)
C10_Depth(d) ==
    IF d # <<>> /\ d[1] = "[" THEN 1 + C10_Depth(Tail(d)) ELSE 0

C10_Rest(d) == SubSeq(d, C10_Depth(d) + 1, Len(d))

C10_IsCode(r) == \E k \in DOMAIN remap_primitives : remap_primitives[k] = r

\* one-letter code back to the keyword, L<path>; back to the dotted name
C10_Base(d) ==
    IF C10_IsCode(C10_Rest(d))
    THEN CHOOSE k \in DOMAIN remap_primitives : remap_primitives[k] = C10_Rest(d)
    ELSE DottedName(Inner(C10_Rest(d)))

C10_Token(d) == TypeToken(C10_Base(d), C10_Depth(d))

\* the statement as claimed, for the return type and for a single parameter
C10_RoundTrip ==
    LastIsMethod =>
        /\ EncodeMethodType(C10_Token(method_type), file_name) = method_type
        /\ Len(LastMethod.params) = 1 =>
               EncodeVariables(C10_Token(variables), file_name) = variables

\* the decoded class name is read back as what it was written from
C10_Unambiguous(d) ==
    \/ C10_IsCode(C10_Rest(d))
    \/ /\ C10_Base(d) \notin DOMAIN remap_primitives
       /\ LET key == <<"L">> \o SlashPath(C10_Base(d)) \o <<";">>
          IN  \/ key \notin DOMAIN file_name
              \/ <<"L">> \o SlashPath(file_name[key]) \o <<";">> = C10_Rest(d)

C10_RoundTripUnambiguous ==
    LastIsMethod =>
        /\ C10_Unambiguous(method_type) =>
               EncodeMethodType(C10_Token(method_type), file_name) = method_type
        /\ Len(LastMethod.params) = 1 /\ C10_Unambiguous(variables) =>
               EncodeVariables(C10_Token(variables), file_name) = variables

\* a mapped class array and an obfuscated name with a package round-trip
C10_Witness ==
    /\ LastIsMethod
    /\ C10_Unambiguous(method_type)
    /\ \/ method_type = <<"[", "[", "L", "a", ";">>
       \/ method_type = <<"[", "L", "x", "/", "y", ";">>
    /\ C10_Token(method_type) \in {<<"a", "[", "]", "[", "]">>,
                                   <<"x", ".", "y", "[", "]">>}

----------------------------------------------------------------------------
(* C12: comment lines add nothing to the index and nothing to the output, *)
(* and a conversion that succeeded has written, for each non-comment      *)
(* input line and in the input's order, exactly one output line: the      *)
(* translation of that line.                                               *)

\* the number of newline characters of a string
RECURSIVE C12_Newlines(_)
C12_Newlines(s) ==
    IF s = <<>> THEN 0
    ELSE (IF s[1] = "\n" THEN 1 ELSE 0) + C12_Newlines(Tail(s))

\* what pass 2 writes for a line it does not skip
C12_Translation(line) ==
    IF ~IsIndented(line) THEN ClassLine(line)
    ELSE IF IsFunction(line) THEN MethodLine(line, file_name)
    ELSE FieldLine(line)

C12_OneLinePerInputLine ==
    /\ \A k \in DOMAIN file_name : Len(k) >= 2 => k[2] # "#"
    /\ pc = "done" =>
          /\ Len(outputFile.content) = OutIndex(Len(inputFile))
          /\ \A j \in 1..Len(inputFile) :
                inputFile[j][1] # "#" =>
                    /\ OutputOf(j) = C12_Translation(inputFile[j])
                    /\ C12_Newlines(OutputOf(j)) = 1

----------------------------------------------------------------------------
(* C13: a type token with an unpaired '[' or ']' left after its complete  *)
(* trailing [] pairs, or with a [] that is not at its end, makes the      *)
(* conversion fail: the method line holding it is never translated and no *)
(* descriptor is emitted for the token.                                    *)
C13_IsMalformedLine(j) == inputFile[j] \in MalformedLines

C13_MalformedBracketsFail ==
    /\ \A j \in 1..Len(inputFile) : C13_IsMalformedLine(j) => ~Written(j)
    /\ (\E j \in 1..Len(inputFile) : C13_IsMalformedLine(j)) => pc # "done"

----------------------------------------------------------------------------
(* C14: a member line that comes before every class header line of the    *)
(* input is not translated: whenever pass 2 has written a field or method *)
(* line, a class header line came earlier in the input, so no output of a *)
(* successful conversion has a member line before its first class line.   *)
C14_IsHeader(j) == inputFile[j][1] # "#" /\ ~IsIndented(inputFile[j])
C14_IsMember(j) == inputFile[j][1] # "#" /\ IsIndented(inputFile[j])

C14_MemberBeforeHeaderFails ==
    \A j \in 1..Len(inputFile) :
        Written(j) /\ C14_IsMember(j) => \E i \in 1..(j - 1) : C14_IsHeader(i)

----------------------------------------------------------------------------
(* C15: whatever the index holds, a type token whose base is one of the   *)
(* nine primitive keywords is emitted as its one-letter code behind the   *)
(* array prefix, never as L...;, and a token of any other base is emitted *)
(* as an L...; class descriptor.                                           *)
C15_IsClassDescriptor(r) ==
    Len(r) >= 2 /\ r[1] = "L" /\ r[Len(r)] = ";"

C15_EncodedByKind(t, d) ==
    IF t.base \in DOMAIN remap_primitives
    THEN C10_Rest(d) = remap_primitives[t.base]
    ELSE C15_IsClassDescriptor(C10_Rest(d))

C15_PrimitiveCodeForAnyIndex ==
    LastIsMethod =>
        /\ C15_EncodedByKind(LastMethod.type, method_type)
        /\ Len(LastMethod.params) = 1 =>
               C15_EncodedByKind(LastMethod.params[1], variables)

----------------------------------------------------------------------------
(* C16: no step of pass 2 touches the index: from the opening of the      *)
(* output to the return of convert_mappings, translating a class, field   *)
(* or method line, skipping a comment or failing leaves file_name as pass *)
(* 1 built it.                                                             *)
C16_IndexFrozenInPass2 ==
    [][pc = "pass2" \/ pc' = "pass2" => file_name' = file_name]_vars

\* a class, a field and a method line were translated with a non-empty index
C16_Witness ==
    /\ pc = "done"
    /\ DOMAIN file_name # {}
    /\ \E j \in 1..Len(inputFile) : Written(j) /\ IsClassEntry(j)
    /\ \E j \in 1..Len(inputFile) : Written(j) /\ IsFieldEntry(j)
    /\ \E j \in 1..Len(inputFile) : Written(j) /\ IsMethodEntry(j)

----------------------------------------------------------------------------
(* C17: when a method line's return or parameter type resolves to a class *)
(* header of the input, the name between 'L' and ';' of the emitted       *)
(* descriptor is the first field of the class line written for that       *)
(* header, whatever the obfuscated name is.                                *)

\* the first field of the class line written for the header that t names
C17_ClassLineName(t) == Split(OutputOf(LastHeader(t.base)), Space)[1]

C17_SameName(t, d) ==
    LastHeader(t.base) # 0 /\ Written(LastHeader(t.base)) =>
        Inner(C10_Rest(d)) = C17_ClassLineName(t)

C17_DescriptorNamesClassLine ==
    LastIsMethod =>
        /\ C17_SameName(LastMethod.type, method_type)
        /\ Len(LastMethod.params) = 1 =>
               C17_SameName(LastMethod.params[1], variables)

----------------------------------------------------------------------------
(* C11: in auto and in manual mode, when convert_mappings fails on a      *)
(* malformed mapping, the run ends with a report of the error that holds  *)
(* the content of the offending line, and remap is not called afterwards. *)
C11_ConversionFailed == pc \in {"pass1_error", "pass2_error"}

\* the report names the line the conversion stopped at
C11_ReportHoldsLine(report) ==
    /\ "line" \in DOMAIN report
    /\ report.line = inputFile[line_no]

C11_NoRemapAfterFailure ==
    C11_ConversionFailed =>
        \A i \in 1..Len(calls) : calls[i] \notin {"get_version_jar", "remap"}

C11_FailureReportedWithLine ==
    /\ C11_NoRemapAfterFailure
    /\ C11_ConversionFailed /\ step = "exited" =>
          /\ stderr # <<>>
          /\ C11_ReportHoldsLine(stderr[Len(stderr)])

----------------------------------------------------------------------------
(* C18: in one call of decompile_fern_flower, whatever quiet, force and   *)
(* the answer to the prompt are, os.remove is called at most once on the  *)
(* extracted temp jar: never on a path it has already removed.            *)
C18_ExtraJarRemovedAtMostOnce ==
    /\ Len(removeLog) <= 1
    /\ \A i \in 1..Len(removeLog) : removeLog[i] = "removed"

====
